---- MODULE Spec2Model ----
(***************************************************************************)
(* SeaHash: the optimized engine (seahash/src/buffer.rs) and the reference *)
(* engine (seahash/src/reference.rs), run one after the other on the same  *)
(* buffer and seed, as tests::hash_match does.                             *)
(*                                                                         *)
(* A u64 is a sequence of 8 bytes, least significant byte first, so that   *)
(* no 64-bit quantity ever has to fit one integer; narrower integers       *)
(* (u32, u16, u8) are sequences of 4, 2 and 1 bytes in the same order.     *)
(***************************************************************************)
EXTENDS Integers, Sequences, FiniteSets, TLC

VARIABLES buf, base, target, entry, seed, pc,
          a, b, c, d, ptr, end_ptr, excessive, iters, reads, written, result,
          vec, cur, pos, ref_result

vars == <<buf, base, target, entry, seed, pc,
          a, b, c, d, ptr, end_ptr, excessive, iters, reads, written, result,
          vec, cur, pos, ref_result>>

----------------------------------------------------------------------------
(* Bounds of the model.                                                    *)

\* Longest buffer hashed: two full 32-byte chunks and a tail.
MaxLen == 64
\* Largest number of zero bytes appended when two inputs are compared.
MaxPad == 6

----------------------------------------------------------------------------
(* 64-bit arithmetic on byte sequences.                                    *)

RECURSIVE XorN(_, _)
XorN(x, y) ==
    IF x = 0 THEN y
    ELSE IF y = 0 THEN x
    ELSE 2 * XorN(x \div 2, y \div 2) + ((x + y) % 2)

RECURSIVE OrN(_, _)
OrN(x, y) ==
    IF x = 0 THEN y
    ELSE IF y = 0 THEN x
    ELSE 2 * OrN(x \div 2, y \div 2) + (IF x % 2 = 1 \/ y % 2 = 1 THEN 1 ELSE 0)

XorTab == [x \in 0..255 |-> [y \in 0..255 |-> XorN(x, y)]]

OrTab == [x \in 0..255 |-> [y \in 0..255 |-> OrN(x, y)]]

\* x ^ y on u64.
Xor64(x, y) == [i \in 1..8 |-> XorTab[x[i]][y[i]]]

\* x | y on u64.
Or64(x, y) == [i \in 1..8 |-> OrTab[x[i]][y[i]]]

Zeros(n) == [i \in 1..n |-> 0]

\* v as u64: zero extension of a narrower unsigned integer.
AsU64(v) == v \o Zeros(8 - Len(v))

\* x << (8 * k) on u64: the k high bytes fall off.
ShlBytes(x, k) == SubSeq(Zeros(k) \o x, 1, 8)

\* x >> 32 on u64.
Shr32(x) == <<x[5], x[6], x[7], x[8], 0, 0, 0, 0>>

\* n as u64, for a usize n below 2^31.
UsizeAsU64(n) ==
    <<n % 256, (n \div 256) % 256, (n \div 65536) % 256, (n \div 16777216) % 256,
      0, 0, 0, 0>>

\* Column k of the schoolbook product of x and y.
ColumnSum(x, y, k) ==
    CASE k = 0 -> x[1] * y[1]
      [] k = 1 -> x[1] * y[2] + x[2] * y[1]
      [] k = 2 -> x[1] * y[3] + x[2] * y[2] + x[3] * y[1]
      [] k = 3 -> x[1] * y[4] + x[2] * y[3] + x[3] * y[2] + x[4] * y[1]
      [] k = 4 -> x[1] * y[5] + x[2] * y[4] + x[3] * y[3] + x[4] * y[2] + x[5] * y[1]
      [] k = 5 -> x[1] * y[6] + x[2] * y[5] + x[3] * y[4] + x[4] * y[3] + x[5] * y[2]
                  + x[6] * y[1]
      [] k = 6 -> x[1] * y[7] + x[2] * y[6] + x[3] * y[5] + x[4] * y[4] + x[5] * y[3]
                  + x[6] * y[2] + x[7] * y[1]
      [] k = 7 -> x[1] * y[8] + x[2] * y[7] + x[3] * y[6] + x[4] * y[5] + x[5] * y[4]
                  + x[6] * y[3] + x[7] * y[2] + x[8] * y[1]

RECURSIVE CarryFrom(_, _, _, _)
\* The bytes of the product from column k on, given the carry into it.
CarryFrom(x, y, k, carry) ==
    IF k > 7 THEN <<>>
    ELSE LET s == ColumnSum(x, y, k) + carry
         IN  <<s % 256>> \o CarryFrom(x, y, k + 1, s \div 256)

\* x.wrapping_mul(y) on u64: the low 64 bits of the product.
WrappingMul(x, y) == CarryFrom(x, y, 0, 0)

----------------------------------------------------------------------------
(* The constants of the algorithm.                                         *)

\* 0xb480a793d8e6c86c
InitB == <<\h6c, \hc8, \he6, \hd8, \h93, \ha7, \h80, \hb4>>
\* 0x6fe2e5aaf078ebc9
InitC == <<\hc9, \heb, \h78, \hf0, \haa, \he5, \he2, \h6f>>
\* 0x14f994a4c5259381
InitD == <<\h81, \h93, \h25, \hc5, \ha4, \h94, \hf9, \h14>>
\* p = 0x7ed0e9fa0d94a33
DiffuseP == <<\h33, \h4a, \hd9, \ha0, \h9f, \h0e, \hed, \h07>>

\* g(x) = h(j(h(j(x)))), h(x) = x >> 32, j(x) = p * x mod 2^64.
diffuse(x) == Shr32(WrappingMul(DiffuseP, Shr32(WrappingMul(DiffuseP, x))))

----------------------------------------------------------------------------
(* Memory.  A buffer is a sequence of bytes at address base; offsets are   *)
(* counted from the first byte.  A load wider than one byte through a raw  *)
(* pointer is undefined behaviour when the address is not a multiple of    *)
(* the width: either the bytes are delivered (a CPU that tolerates the     *)
(* access) or the process stops (a strict-alignment CPU, a build that      *)
(* checks the alignment of raw pointers).                                  *)

\* The byte at offset off; the code never loads outside the buffer.
ByteAt(mem, off) == IF off >= 0 /\ off < Len(mem) THEN mem[off + 1] ELSE 0

Reverse(v) == [i \in 1..Len(v) |-> v[Len(v) + 1 - i]]

\* *(ptr as *const uN): the N/8 bytes at off as a native integer.
Load(mem, off, size, tgt) ==
    LET bytes == [i \in 1..size |-> ByteAt(mem, off + i - 1)]
    IN  IF tgt.endian = "little" THEN bytes ELSE Reverse(bytes)

\* uN::to_le: the identity on a little-endian target, a byte swap otherwise.
to_le(v, tgt) == IF tgt.endian = "little" THEN v ELSE Reverse(v)

\* An access is <<offset, size>>.  It is misaligned when its address is not
\* a multiple of its size.
Misaligned(addr, acc) == (addr + acc[1]) % acc[2] # 0

\* Some access of accs, made from addr, is undefined and may stop the process.
MayFault(addr, accs) == \E i \in 1..Len(accs) : Misaligned(addr, accs[i])

\* The accesses of a sequence shifted by off.
Shift(accs, off) == [i \in 1..Len(accs) |-> <<accs[i][1] + off, accs[i][2]>>]

----------------------------------------------------------------------------
(* buffer.rs: the optimized engine's readers.                              *)

\* buffer::read_int, on the len bytes at off.
buffer_read_int(mem, off, len, tgt) ==
    CASE len = 1 -> AsU64(Load(mem, off, 1, tgt))
      [] len = 2 -> AsU64(to_le(Load(mem, off, 2, tgt), tgt))
      [] len = 3 ->
            LET x == AsU64(to_le(Load(mem, off, 2, tgt), tgt))
                y == AsU64(Load(mem, off + 2, 1, tgt))
            IN  Or64(x, ShlBytes(y, 2))
      [] len = 4 -> AsU64(to_le(Load(mem, off, 4, tgt), tgt))
      [] len = 5 ->
            LET x == AsU64(to_le(Load(mem, off, 4, tgt), tgt))
                y == AsU64(Load(mem, off + 4, 1, tgt))
            IN  Or64(x, ShlBytes(y, 4))
      [] len = 6 ->
            LET x == AsU64(to_le(Load(mem, off, 4, tgt), tgt))
                y == AsU64(to_le(Load(mem, off + 4, 2, tgt), tgt))
            IN  Or64(x, ShlBytes(y, 4))
      [] len = 7 ->
            LET x == AsU64(to_le(Load(mem, off, 4, tgt), tgt))
                y == AsU64(to_le(Load(mem, off + 4, 2, tgt), tgt))
                z == AsU64(Load(mem, off + 6, 1, tgt))
            IN  Or64(Or64(x, ShlBytes(y, 4)), ShlBytes(z, 6))
      [] OTHER -> Zeros(8)

\* The loads buffer::read_int performs, relative to the slice.
read_int_accesses(len) ==
    CASE len = 1 -> << <<0, 1>> >>
      [] len = 2 -> << <<0, 2>> >>
      [] len = 3 -> << <<0, 2>>, <<2, 1>> >>
      [] len = 4 -> << <<0, 4>> >>
      [] len = 5 -> << <<0, 4>>, <<4, 1>> >>
      [] len = 6 -> << <<0, 4>>, <<4, 2>> >>
      [] len = 7 -> << <<0, 4>>, <<4, 2>>, <<6, 1>> >>
      [] OTHER -> << >>

\* buffer::read_u64, on the 8 bytes at off, under either pointer width.
read_u64(mem, off, tgt) ==
    IF tgt.pointer_width = 32
    THEN Or64(AsU64(to_le(Load(mem, off, 4, tgt), tgt)),
              ShlBytes(AsU64(to_le(Load(mem, off, 4, tgt), tgt)), 4))
    ELSE to_le(Load(mem, off, 8, tgt), tgt)

\* The loads buffer::read_u64 performs, relative to ptr.
read_u64_accesses(tgt) ==
    IF tgt.pointer_width = 32
    THEN << <<0, 4>>, <<0, 4>> >>
    ELSE << <<0, 8>> >>

----------------------------------------------------------------------------
(* reference.rs: the reference engine.                                     *)

RECURSIVE reference_read_int(_)
\* reference::read_int: x <<= 8; x |= i, over the bytes from last to first.
reference_read_int(int) ==
    IF Len(int) = 0 THEN Zeros(8)
    ELSE Or64(ShlBytes(reference_read_int(SubSeq(int, 2, Len(int))), 1),
              AsU64(<<int[1]>>))

\* State::with_seed.
with_seed(s) == [vec |-> <<s, InitB, InitC, InitD>>, cur |-> 0]

\* write_u64 with the increment of the cursor left out.
write_u64_no_advance(st, x) ==
    [vec |-> [st.vec EXCEPT ![st.cur + 1] = diffuse(Xor64(st.vec[st.cur + 1], x))],
     cur |-> st.cur]

\* State::write_u64.
write_u64(st, x) ==
    [vec |-> [st.vec EXCEPT ![st.cur + 1] = diffuse(Xor64(st.vec[st.cur + 1], x))],
     cur |-> (st.cur + 1) % 4]

\* finish without the number of written bytes.
finish_input_no_length(v, total) ==
    Xor64(Xor64(Xor64(v[1], v[2]), v[3]), v[4])

\* The argument of the final diffuse in State::finish.
finish_input(v, total) ==
    Xor64(Xor64(Xor64(Xor64(v[1], v[2]), v[3]), v[4]), UsizeAsU64(total))

\* State::finish.
finish(v, total) == diffuse(finish_input(v, total))

\* The k-th chunk (from 0) of buf.chunks(8).
Chunk(mem, k) ==
    SubSeq(mem, 8 * k + 1, IF 8 * k + 8 < Len(mem) THEN 8 * k + 8 ELSE Len(mem))

\* The number of chunks of buf.chunks(8).
NumChunks(mem) == (Len(mem) + 7) \div 8

RECURSIVE reference_state(_, _, _)
\* The state after the first k chunks of the loop of reference::hash_seeded.
reference_state(mem, s, k) ==
    IF k = 0 THEN with_seed(s)
    ELSE write_u64(reference_state(mem, s, k - 1),
                   reference_read_int(Chunk(mem, k - 1)))

\* reference::hash_seeded.
reference_hash_seeded(mem, s) ==
    finish(reference_state(mem, s, NumChunks(mem)).vec, Len(mem))

\* The seed of reference::hash with two digits exchanged: 0x16f11fe89b0d67c7.
reference_hash_seed_slip == <<\hc7, \h67, \h0d, \h9b, \he8, \h1f, \hf1, \h16>>

\* The documented formulation (reference.rs, module documentation): the
\* input padded with null bytes until the length is divisible by 8.
Pad(mem) == mem \o Zeros((8 - (Len(mem) % 8)) % 8)

\* a' = b, b' = c, c' = d, d' = g(a XOR n).
doc_step(st, n) == <<st[2], st[3], st[4], diffuse(Xor64(st[1], n))>>

RECURSIVE doc_state(_, _, _)
\* The documented state after the first k 64-bit blocks of the padded input.
doc_state(padded, s, k) ==
    IF k = 0 THEN <<s, InitB, InitC, InitD>>
    ELSE doc_step(doc_state(padded, s, k - 1), SubSeq(padded, 8 * k - 7, 8 * k))

\* H = g(x XOR y XOR z XOR w XOR l), l the length of the original buffer.
doc_hash(mem, s) ==
    LET st == doc_state(Pad(mem), s, Len(Pad(mem)) \div 8)
    IN  diffuse(Xor64(Xor64(Xor64(Xor64(st[1], st[2]), st[3]), st[4]),
                      UsizeAsU64(Len(mem))))

\* The seed reference::hash passes on: 0x16f11fe89b0d677c.
reference_hash_seed == <<\h7c, \h67, \h0d, \h9b, \he8, \h1f, \hf1, \h16>>

----------------------------------------------------------------------------
(* buffer.rs: the optimized engine.  Lanes are <<a, b, c, d>>.             *)

\* The seed buffer::hash passes on: 0x16f11fe89b0d677c.
buffer_hash_seed == <<\h7c, \h67, \h0d, \h9b, \he8, \h1f, \hf1, \h16>>

\* lane = diffuse(lane ^ x).
Mix(lane, x) == diffuse(Xor64(lane, x))

\* buf.len() as isize & !0x1F: the low five bits cleared.
MainSegment(len) == len - (len % 32)

\* One iteration of the main loop, reading at off.
main_loop_step(l, mem, off, tgt) ==
    << Mix(l[1], read_u64(mem, off, tgt)),
       Mix(l[2], read_u64(mem, off + 8, tgt)),
       Mix(l[3], read_u64(mem, off + 16, tgt)),
       Mix(l[4], read_u64(mem, off + 24, tgt)) >>

\* The loads of one iteration of the main loop.
main_loop_accesses(off, tgt) ==
    Shift(read_u64_accesses(tgt), off) \o Shift(read_u64_accesses(tgt), off + 8)
    \o Shift(read_u64_accesses(tgt), off + 16) \o Shift(read_u64_accesses(tgt), off + 24)

\* match excessive { ... }: the lanes after the excessive bytes at off.
tail(l, mem, off, exc, tgt) ==
    CASE exc = 0 -> l
      [] exc \in 1..7 ->
            << Mix(l[1], buffer_read_int(mem, off, exc, tgt)), l[2], l[3], l[4] >>
      [] exc = 8 ->
            << Mix(l[1], read_u64(mem, off, tgt)), l[2], l[3], l[4] >>
      [] exc \in 9..15 ->
            << Mix(l[1], read_u64(mem, off, tgt)),
               Mix(l[2], buffer_read_int(mem, off + 8, exc - 8, tgt)), l[3], l[4] >>
      [] exc = 16 ->
            << Mix(l[1], read_u64(mem, off, tgt)),
               Mix(l[2], read_u64(mem, off + 8, tgt)), l[3], l[4] >>
      [] exc \in 17..23 ->
            << Mix(l[1], read_u64(mem, off, tgt)),
               Mix(l[2], read_u64(mem, off + 8, tgt)),
               Mix(l[3], buffer_read_int(mem, off + 16, exc - 16, tgt)), l[4] >>
      [] exc = 24 ->
            << Mix(l[1], read_u64(mem, off, tgt)),
               Mix(l[2], read_u64(mem, off + 8, tgt)),
               Mix(l[3], read_u64(mem, off + 16, tgt)), l[4] >>
      [] OTHER ->
            << Mix(l[1], read_u64(mem, off, tgt)),
               Mix(l[2], read_u64(mem, off + 8, tgt)),
               Mix(l[3], read_u64(mem, off + 16, tgt)),
               Mix(l[4], buffer_read_int(mem, off + 24, exc - 24, tgt)) >>

\* The loads of the match on excessive, in order.
tail_accesses(off, exc, tgt) ==
    LET u(k) == Shift(read_u64_accesses(tgt), off + 8 * k)
        r(k) == Shift(read_int_accesses(exc - 8 * k), off + 8 * k)
    IN  CASE exc = 0 -> << >>
          [] exc \in 1..7 -> r(0)
          [] exc = 8 -> u(0)
          [] exc \in 9..15 -> u(0) \o r(1)
          [] exc = 16 -> u(0) \o u(1)
          [] exc \in 17..23 -> u(0) \o u(1) \o r(2)
          [] exc = 24 -> u(0) \o u(1) \o u(2)
          [] OTHER -> u(0) \o u(1) \o u(2) \o r(3)

\* The lanes the match on excessive assigns, in order.
tail_written(exc) ==
    CASE exc = 0 -> << >>
      [] exc \in 1..8 -> <<"a">>
      [] exc \in 9..16 -> <<"a", "b">>
      [] exc \in 17..24 -> <<"a", "b", "c">>
      [] OTHER -> <<"a", "b", "c", "d">>

\* How far the match on excessive moves ptr.
tail_advance(exc) ==
    CASE exc \in 0..8 -> 0
      [] exc \in 9..16 -> 8
      [] exc \in 17..24 -> 16
      [] OTHER -> 24

\* The value of excessive after the match.
tail_excessive(exc) ==
    CASE exc \in 9..15 -> exc - 8
      [] exc \in 17..23 -> exc - 16
      [] exc \in 0..8 \cup {16, 24} -> exc
      [] OTHER -> exc - 24

\* a ^ b ^ (c ^ d) ^ len: the argument of the final diffuse.
buffer_final_input(l, len) ==
    Xor64(Xor64(Xor64(l[1], l[2]), Xor64(l[3], l[4])), UsizeAsU64(len))

\* The value buffer::hash_seeded returns.
buffer_final(l, len) == diffuse(buffer_final_input(l, len))

RECURSIVE buffer_main_loop(_, _, _, _, _)
\* while end_ptr > ptr { ... }, from offset off.
buffer_main_loop(l, mem, off, end, tgt) ==
    IF end > off
    THEN buffer_main_loop(main_loop_step(l, mem, off, tgt), mem, off + 32, end, tgt)
    ELSE l

\* The lanes of buffer::hash_seeded when the match on excessive is done.
buffer_lanes(mem, s, tgt) ==
    LET end == MainSegment(Len(mem))
    IN  tail(buffer_main_loop(<<s, InitB, InitC, InitD>>, mem, 0, end, tgt),
             mem, end, Len(mem) - end, tgt)

\* buffer::hash_seeded, every load delivered.
buffer_hash_seeded(mem, s, tgt) == buffer_final(buffer_lanes(mem, s, tgt), Len(mem))

----------------------------------------------------------------------------
(* The inputs.                                                             *)

\* tests::zero hashes zero bytes, tests::seq the bytes buf[i] = i as u8.
MakeBuf(pat, n) == [i \in 1..n |-> IF pat = "seq" THEN (i - 1) % 256 ELSE 0]

Buffers == {MakeBuf(pat, n) : pat \in {"zero", "seq"}, n \in 0..MaxLen}

\* 0xcc34bff2, a seed under which the empty buffer and the buffer [0] collide.
SeedLow == <<\hf2, \hbf, \h34, \hcc, 0, 0, 0, 0>>

\* The seeds hash_seeded is called with.
Seeds == {SeedLow}

\* The build: the two cfg branches of read_u64 and the byte order of the
\* target.
Targets == [pointer_width : {32, 64}, endian : {"little", "big"}]

\* Where the buffer lies: a u8 slice has alignment 1.
Bases == {4096, 4097}

Lanes == <<a, b, c, d>>

----------------------------------------------------------------------------
(* The run: tests::hash_match calls the optimized engine and then the      *)
(* reference engine on the same buffer, through hash or hash_seeded.       *)

Init ==
    /\ buf \in Buffers
    /\ base \in Bases
    /\ target \in Targets
    /\ entry = "none"
    /\ seed = Zeros(8)
    /\ pc = "call"
    /\ a = Zeros(8) /\ b = Zeros(8) /\ c = Zeros(8) /\ d = Zeros(8)
    /\ ptr = 0 /\ end_ptr = 0 /\ excessive = 0 /\ iters = 0
    /\ reads = << >> /\ written = << >>
    /\ result = Zeros(8)
    /\ vec = <<Zeros(8), Zeros(8), Zeros(8), Zeros(8)>>
    /\ cur = 0 /\ pos = 0
    /\ ref_result = Zeros(8)

RefVars == <<vec, cur, pos, ref_result>>
InputVars == <<buf, base, target>>

\* buffer::hash_seeded up to the main loop.
Enter(s) ==
    /\ seed' = s
    /\ a' = s /\ b' = InitB /\ c' = InitC /\ d' = InitD
    /\ ptr' = base
    /\ end_ptr' = base + MainSegment(Len(buf))
    /\ pc' = "loop"
    /\ UNCHANGED <<excessive, iters, reads, written, result>>
    /\ UNCHANGED RefVars
    /\ UNCHANGED InputVars

\* buffer::hash.
Hash ==
    /\ pc = "call"
    /\ entry' = "hash"
    /\ Enter(buffer_hash_seed)

\* buffer::hash_seeded.
HashSeeded ==
    /\ pc = "call"
    /\ entry' = "hash_seeded"
    /\ \E s \in Seeds : Enter(s)

\* One iteration of while end_ptr > ptr, every load delivered.
MainLoop ==
    /\ pc = "loop"
    /\ end_ptr > ptr
    /\ \E l \in {main_loop_step(Lanes, buf, ptr - base, target)} :
            a' = l[1] /\ b' = l[2] /\ c' = l[3] /\ d' = l[4]
    /\ ptr' = ptr + 32
    /\ iters' = iters + 1
    /\ reads' = reads \o main_loop_accesses(ptr - base, target)
    /\ UNCHANGED <<entry, seed, pc, end_ptr, excessive, written, result>>
    /\ UNCHANGED RefVars
    /\ UNCHANGED InputVars

\* A misaligned load of the main loop stops the process.
MainLoopFault ==
    /\ pc = "loop"
    /\ end_ptr > ptr
    /\ MayFault(base, main_loop_accesses(ptr - base, target))
    /\ pc' = "fault"
    /\ UNCHANGED <<entry, seed, a, b, c, d, ptr, end_ptr, excessive, iters, reads,
                   written, result>>
    /\ UNCHANGED RefVars
    /\ UNCHANGED InputVars

\* The loop ends; excessive = buf.len() + buf.as_ptr() - end_ptr.
LoopExit ==
    /\ pc = "loop"
    /\ ~(end_ptr > ptr)
    /\ excessive' = Len(buf) + base - end_ptr
    /\ pc' = "tail"
    /\ UNCHANGED <<entry, seed, a, b, c, d, ptr, end_ptr, iters, reads, written, result>>
    /\ UNCHANGED RefVars
    /\ UNCHANGED InputVars

\* match excessive { ... }, every load delivered.
TailFold ==
    /\ pc = "tail"
    /\ \E l \in {tail(Lanes, buf, ptr - base, excessive, target)} :
            a' = l[1] /\ b' = l[2] /\ c' = l[3] /\ d' = l[4]
    /\ ptr' = ptr + tail_advance(excessive)
    /\ excessive' = tail_excessive(excessive)
    /\ reads' = reads \o tail_accesses(ptr - base, excessive, target)
    /\ written' = tail_written(excessive)
    /\ pc' = "final"
    /\ UNCHANGED <<entry, seed, end_ptr, iters, result>>
    /\ UNCHANGED RefVars
    /\ UNCHANGED InputVars

\* A misaligned load of the match on excessive stops the process.
TailFault ==
    /\ pc = "tail"
    /\ MayFault(base, tail_accesses(ptr - base, excessive, target))
    /\ pc' = "fault"
    /\ UNCHANGED <<entry, seed, a, b, c, d, ptr, end_ptr, excessive, iters, reads,
                   written, result>>
    /\ UNCHANGED RefVars
    /\ UNCHANGED InputVars

\* a = a ^ b; c = c ^ d; a = a ^ c; a = a ^ len; diffuse(a).
Final ==
    /\ pc = "final"
    /\ a' = buffer_final_input(Lanes, Len(buf))
    /\ c' = Xor64(c, d)
    /\ result' = buffer_final(Lanes, Len(buf))
    /\ pc' = "ref_call"
    /\ UNCHANGED <<entry, seed, b, d, ptr, end_ptr, excessive, iters, reads, written>>
    /\ UNCHANGED RefVars
    /\ UNCHANGED InputVars

OptVars == <<a, b, c, d, ptr, end_ptr, excessive, iters, reads, written, result>>

\* reference::hash or reference::hash_seeded: State::with_seed.
RefCall ==
    /\ pc = "ref_call"
    /\ \E st \in {with_seed(IF entry = "hash" THEN reference_hash_seed ELSE seed)} :
            vec' = st.vec /\ cur' = st.cur
    /\ pos' = 0
    /\ pc' = "ref_loop"
    /\ UNCHANGED <<entry, seed, ref_result>>
    /\ UNCHANGED OptVars
    /\ UNCHANGED InputVars

\* for int in buf.chunks(8) { state.write_u64(read_int(int)) }.
RefWrite ==
    /\ pc = "ref_loop"
    /\ pos < NumChunks(buf)
    /\ \E st \in {write_u64([vec |-> vec, cur |-> cur],
                            reference_read_int(Chunk(buf, pos)))} :
            vec' = st.vec /\ cur' = st.cur
    /\ pos' = pos + 1
    /\ UNCHANGED <<entry, seed, pc, ref_result>>
    /\ UNCHANGED OptVars
    /\ UNCHANGED InputVars

\* state.finish(buf.len()).
RefFinish ==
    /\ pc = "ref_loop"
    /\ pos >= NumChunks(buf)
    /\ ref_result' = finish(vec, Len(buf))
    /\ pc' = "done"
    /\ UNCHANGED <<entry, seed, vec, cur, pos>>
    /\ UNCHANGED OptVars
    /\ UNCHANGED InputVars

Next ==
    \/ Hash
    \/ HashSeeded
    \/ MainLoop
    \/ MainLoopFault
    \/ LoopExit
    \/ TailFold
    \/ TailFault
    \/ Final
    \/ RefCall
    \/ RefWrite
    \/ RefFinish

Spec == Init /\ [][Next]_vars

----------------------------------------------------------------------------
(* The claims.                                                             *)

\* The seed the reference engine was called with.
RefSeed == IF entry = "hash" THEN reference_hash_seed ELSE seed

\* C1: for every buffer and seed the optimized engine returns the value the
\* reference engine returns.
C1_EnginesAgree == pc = "done" => result = ref_result

\* C2: hashing B and hashing B followed by k >= 1 zero bytes give different
\* results, in both engines.
C2_TrailingZerosChangeHash ==
    pc = "done" =>
        \A k \in 1..MaxPad :
            /\ ref_result # reference_hash_seeded(buf \o Zeros(k), RefSeed)
            /\ result # buffer_hash_seeded(buf \o Zeros(k), seed, target)

\* The lanes l1 and l2 are equal, and the arguments Input makes of them for
\* the final diffuse differ once the lengths n1 and n2 are XORed in.
SameLanesOtherInput(Input(_, _), l1, n1, l2, n2) ==
    l1 = l2 /\ Input(l1, n1) # Input(l2, n2)

\* The reference engine's vec for the buffer followed by k zero bytes.
PaddedVec(k) ==
    reference_state(buf \o Zeros(k), RefSeed, NumChunks(buf \o Zeros(k))).vec

\* C2, amended: when the k zero bytes stay inside the last, partial group of
\* 8 bytes of B (n mod 8 # 0 and n mod 8 + k <= 7), both engines end with the
\* same four lanes for B and for B followed by the zeros, and pass different
\* values to the final diffuse, the length being XORed in.
C2_LengthReachesFinalDiffuse ==
    \A k \in 1..MaxPad :
        ((Len(buf) % 8) # 0 /\ (Len(buf) % 8) + k <= 7) =>
            /\ pc = "final" =>
                   SameLanesOtherInput(buffer_final_input, Lanes, Len(buf),
                       buffer_lanes(buf \o Zeros(k), seed, target), Len(buf) + k)
            /\ pc = "done" =>
                   SameLanesOtherInput(finish_input, vec, Len(buf),
                       PaddedVec(k), Len(buf) + k)

C2_Witness == pc = "done" /\ Len(buf) = 35 /\ buf[2] = 1 /\ entry = "hash_seeded"

\* 0x16f11fe89b0d677c, the default seed as the claim gives it.
ClaimedDefaultSeed == <<\h7c, \h67, \h0d, \h9b, \he8, \h1f, \hf1, \h16>>

\* C3: in both engines hash(buf) is hash_seeded(buf, 0x16f11fe89b0d677c), and
\* that seed is the first value of lane a.
C3_DefaultSeed ==
    entry = "hash" =>
        /\ (pc = "loop" /\ iters = 0) => a = ClaimedDefaultSeed
        /\ pc = "ref_call" => result = buffer_hash_seeded(buf, ClaimedDefaultSeed, target)
        /\ (pc = "ref_loop" /\ pos = 0) => vec[1] = ClaimedDefaultSeed
        /\ pc = "done" => ref_result = reference_hash_seeded(buf, ClaimedDefaultSeed)

C3_Witness == entry = "hash" /\ pc = "done" /\ Len(buf) = 40 /\ buf[2] = 1

\* The number of loads that touch the byte at offset off.
TimesRead(off) ==
    Cardinality({i \in 1..Len(reads) :
                    off >= reads[i][1] /\ off < reads[i][1] + reads[i][2]})

\* C4: every byte the optimized engine loads lies inside the buffer, and once
\* the excessive bytes are folded every byte of the buffer was loaded exactly
\* once.
C4_ReadsInBoundsOnce ==
    /\ \A i \in 1..Len(reads) :
            reads[i][1] >= 0 /\ reads[i][1] + reads[i][2] <= Len(buf)
    /\ pc = "final" => \A off \in 0..(Len(buf) - 1) : TimesRead(off) = 1

\* C5: after k iterations of the main loop the lanes are the reference
\* engine's vec after 4k write_u64 steps on the same bytes, with cur = 0.
C5_MainLoopIsFourWrites ==
    pc = "loop" =>
        /\ reference_state(buf, seed, 4 * iters).vec = Lanes
        /\ reference_state(buf, seed, 4 * iters).cur = 0

\* The i-th group (from 1) of at most 8 excessive bytes, little-endian.
TailGroup(i) ==
    LET from == ptr - base + 8 * (i - 1)
        upto == IF from + 8 < Len(buf) THEN from + 8 ELSE Len(buf)
    IN  AsU64(SubSeq(buf, from + 1, upto))

\* C6: the fold of the r = n mod 32 excessive bytes updates exactly
\* ceil(r/8) lanes, in the order a, b, c, d, the i-th with the i-th group of
\* tail bytes as a little-endian integer, and leaves the other lanes alone;
\* d is updated only for r in 25..31.
C6_TailFoldsGroupsInOrder ==
    [][(pc = "tail" /\ pc' = "final") =>
        LET r == excessive
            g == (r + 7) \div 8
        IN  /\ r = (Len(buf) % 32)
            /\ \A i \in 1..4 :
                   Lanes'[i] = IF i <= g THEN Mix(Lanes[i], TailGroup(i)) ELSE Lanes[i]
            /\ written' = SubSeq(<<"a", "b", "c", "d">>, 1, g)
            /\ (d' # d) => r \in 25..31]_vars

\* C7: read_u64 returns the little-endian integer of the 8 bytes at ptr,
\* under either pointer width.
C7_ReadU64IsLittleEndian ==
    pc # "call" =>
        \A k \in 0..((Len(buf) \div 8) - 1) :
            read_u64(buf, 8 * k, target) = SubSeq(buf, 8 * k + 1, 8 * k + 8)

\* C8: the documented formulation (rotate the state, mix into the first
\* lane, over the zero-padded input) gives the hash the cursor formulation
\* gives.
C8_DocumentedFormMatches == pc = "done" => ref_result = doc_hash(buf, RefSeed)

C8_Witness == pc = "done" /\ Len(buf) = 45 /\ buf[2] = 1

\* C9: on a slice of 1..7 bytes the optimized read_int returns what the
\* reference read_int returns, the little-endian integer of those bytes with
\* zero high bytes; on a slice of length 0 both return 0.  The slice is the
\* one the fold of the excessive bytes passes: the last n mod 8 bytes.
C9_ReadIntsAgree ==
    pc \in {"tail", "final", "fault"} =>
        LET len == Len(buf) % 8
            off == Len(buf) - len
            int == SubSeq(buf, off + 1, off + len)
        IN  /\ ~MayFault(base, Shift(read_int_accesses(len), off))
            /\ buffer_read_int(buf, off, len, target) = reference_read_int(int)
            /\ buffer_read_int(buf, off, len, target) = AsU64(int)
            /\ buffer_read_int(buf, off, 0, target) = Zeros(8)
            /\ reference_read_int(<< >>) = Zeros(8)

\* C10: the main loop ends after floor(n/32) iterations at offset
\* 32*floor(n/32) with n mod 32 excessive bytes, and every call goes on to the
\* final diffuse and returns.
C10_EveryCallReturns ==
    /\ pc = "tail" =>
        /\ iters = Len(buf) \div 32
        /\ ptr = base + 32 * (Len(buf) \div 32)
        /\ excessive = (Len(buf) % 32)
    /\ pc # "fault"

----------------------------------------------------------------------------
(* What remains of C1, C4, C5, C6, C7, C9 and C10 on the builds the two     *)
(* defects of read_u64 and of the raw loads do not touch: 64-bit pointers,  *)
(* and no load stopped for its alignment.                                   *)

Wide == target.pointer_width = 64

Wide_EnginesAgree == Wide => C1_EnginesAgree

Wide_ReadsInBoundsOnce == Wide => C4_ReadsInBoundsOnce

Wide_MainLoopIsFourWrites == Wide => C5_MainLoopIsFourWrites

Wide_TailFoldsGroupsInOrder ==
    [][(Wide /\ pc = "tail" /\ pc' = "final") =>
        /\ excessive = (Len(buf) % 32)
        /\ \A i \in 1..4 :
               Lanes'[i] = IF i <= (excessive + 7) \div 8
                           THEN Mix(Lanes[i], TailGroup(i)) ELSE Lanes[i]
        /\ written' = SubSeq(<<"a", "b", "c", "d">>, 1, (excessive + 7) \div 8)
        /\ (d' # d) => excessive \in 25..31]_vars

Wide_ReadU64IsLittleEndian == Wide => C7_ReadU64IsLittleEndian

\* The value of read_int on the last 0..7 bytes of the buffer.
Value_ReadIntsAgree ==
    pc = "tail" =>
        \A len \in 0..7 :
            len <= Len(buf) =>
                /\ buffer_read_int(buf, Len(buf) - len, len, target)
                       = reference_read_int(SubSeq(buf, Len(buf) - len + 1, Len(buf)))
                /\ buffer_read_int(buf, Len(buf) - len, len, target)
                       = AsU64(SubSeq(buf, Len(buf) - len + 1, Len(buf)))

\* The loop count, and the return of every call whose loads are aligned or
\* tolerated.
Aligned_EveryCallReturns ==
    /\ pc = "tail" =>
        /\ iters = Len(buf) \div 32
        /\ ptr = base + 32 * (Len(buf) \div 32)
        /\ excessive = (Len(buf) % 32)
    /\ pc = "fault" => base % 8 # 0

====
